---- MODULE Spec2Model ----
(***************************************************************************)
(* A model of ClimateEducationVisualizer: prepare_data.py (the two csv     *)
(* readers, grouping of parsed rows, filters, yearly averages,             *)
(* process_data), compute_data.py (conversions, the year-aligned series    *)
(* and the linear regression) and the Load Data page of main.py.           *)
(*                                                                         *)
(* Python objects that the code can share or change in place (dicts and    *)
(* lists) live in a heap and are named by references; the dataclass        *)
(* instances are values, because no statement of the source assigns to a   *)
(* field of an EducationData or ClimateData.  A dict keeps its keys in     *)
(* insertion order, as Python's does.  In the pipeline floats are exact    *)
(* fractions in lowest terms; the regression rounds every operation to a   *)
(* binary float of MantissaBits bits.  The text of a csv field is a        *)
(* sequence of characters that int() and float() read digit by digit.      *)
(***************************************************************************)
EXTENDS Integers, Sequences, FiniteSets, TLC

VARIABLES
    education_rows,      \* data rows of the education file, in file order
    climate_rows,        \* data rows of the climate file, in file order
    heap,                \* the dict and list objects
    raw_education_data,  \* reference of the dict read from the education file
    raw_climate_data,    \* reference of the dict read from the climate file
    _education_data,     \* App._education_data: a reference, or NoRef
    _climate_data,       \* App._climate_data: a reference, or NoRef
    returned,            \* what process_data returned when the two were loaded
    last,                \* the last call: its name, arguments and outcome
    ent_education_data,  \* LoadDataPage: the path in the education entry
    ent_climate_data,    \* LoadDataPage: the path in the climate entry
    lbl_output,          \* LoadDataPage: the text of the status label
    after,               \* callbacks scheduled with after() and not yet run
    raised,              \* the page display_page raised last
    cmb_country,         \* MainPage._cmb_country['values']
    showerror,           \* the message of the last error dialog, or NoError
    process_calls        \* the pairs of dicts process_data returned to read_data

\* The widgets and timers of main.py.
gui == <<ent_education_data, ent_climate_data, lbl_output, after, raised,
         cmb_country, showerror, process_calls>>

vars == <<education_rows, climate_rows, heap, raw_education_data,
          raw_climate_data, _education_data, _climate_data, returned, last, gui>>

(***************************************************************************)
(* Bounds of the model.                                                    *)
(***************************************************************************)
MaxEducationRows == 2
MaxClimateRows == 3
\* Rows of both files together, where both files are drawn at once and many
\* calls are tried on each pair.
MaxRowsTogether == 4
\* Rows of both files together, where every stage is called on each pair.
MaxRowsStages == 3

NoRef == 0

SeqsUpTo(S, n) == UNION {[1..k -> S] : k \in 0..n}

Range(s) == {s[i] : i \in 1..Len(s)}

\* All orders in which a finite set can be enumerated.
Orders(S) ==
    {o \in [1..Cardinality(S) -> S] : \A i, j \in DOMAIN o : i # j => o[i] # o[j]}

(***************************************************************************)
(* Floats, as fractions num/den in lowest terms with den > 0.              *)
(***************************************************************************)
Abs(n) == IF n < 0 THEN -n ELSE n

RECURSIVE GCD(_, _)
GCD(a, b) == IF b = 0 THEN a ELSE GCD(b, a % b)

Float(n, d) ==
    LET g == GCD(Abs(n), d)
    IN  [num |-> n \div g, den |-> d \div g]

FromInt(n) == [num |-> n, den |-> 1]

FAdd(a, b) == Float(a.num * b.den + b.num * a.den, a.den * b.den)

\* a / n for a positive integer n (n is always a len() of a non-empty list).
FDivInt(a, n) == Float(a.num, a.den * n)

(***************************************************************************)
(* data_classes.py                                                         *)
(***************************************************************************)
\* The eleven attainment fields of EducationData, in declaration order.
AttainmentFields ==
    <<"percent_no_schooling", "percent_primary_schooling",
      "percent_complete_primary_schooling", "percent_secondary_schooling",
      "percent_complete_secondary_schooling", "percent_tertiary_schooling",
      "percent_complete_tertiary_schooling", "avg_years_schooling",
      "avg_years_primary_schooling", "avg_years_secondary_schooling",
      "avg_years_tertiary_schooling">>

\* The constructor of the dataclass EducationData; attain gives the eleven
\* attainment values by field name.
EducationData(country, year, age_from, age_to, attain) ==
    [country |-> country, year |-> year, age_from |-> age_from, age_to |-> age_to,
     percent_no_schooling |-> attain.percent_no_schooling,
     percent_primary_schooling |-> attain.percent_primary_schooling,
     percent_complete_primary_schooling |-> attain.percent_complete_primary_schooling,
     percent_secondary_schooling |-> attain.percent_secondary_schooling,
     percent_complete_secondary_schooling |-> attain.percent_complete_secondary_schooling,
     percent_tertiary_schooling |-> attain.percent_tertiary_schooling,
     percent_complete_tertiary_schooling |-> attain.percent_complete_tertiary_schooling,
     avg_years_schooling |-> attain.avg_years_schooling,
     avg_years_primary_schooling |-> attain.avg_years_primary_schooling,
     avg_years_secondary_schooling |-> attain.avg_years_secondary_schooling,
     avg_years_tertiary_schooling |-> attain.avg_years_tertiary_schooling]

\* The constructor of the dataclass ClimateData.
ClimateData(country, year, avg_temp) ==
    [country |-> country, year |-> year, avg_temp |-> avg_temp]

\* The members of the enum EducationAttainment.
EducationAttainment ==
    {"PERCENT_NO_SCHOOLING", "PERCENT_PRIMARY_SCHOOLING",
     "PERCENT_COMPLETE_PRIMARY_SCHOOLING", "PERCENT_SECONDARY_SCHOOLING",
     "PERCENT_COMPLETE_SECONDARY_SCHOOLING", "PERCENT_TERTIARY_SCHOOLING",
     "PERCENT_COMPLETE_TERTIARY_SCHOOLING", "AVERAGE_YEARS_SCHOOLING",
     "AVERAGE_YEARS_PRIMARY_SCHOOLING", "AVERAGE_YEARS_SECONDARY_SCHOOLING",
     "AVERAGE_YEARS_TERTIARY_SCHOOLING"}

\* A slip: the branch of PERCENT_COMPLETE_TERTIARY_SCHOOLING returns the
\* field of the branch before it.
extract_data_copied_branch(self, data) ==
    IF self = "PERCENT_NO_SCHOOLING" THEN data.percent_no_schooling
    ELSE IF self = "PERCENT_PRIMARY_SCHOOLING" THEN data.percent_primary_schooling
    ELSE IF self = "PERCENT_COMPLETE_PRIMARY_SCHOOLING"
         THEN data.percent_complete_primary_schooling
    ELSE IF self = "PERCENT_SECONDARY_SCHOOLING" THEN data.percent_secondary_schooling
    ELSE IF self = "PERCENT_COMPLETE_SECONDARY_SCHOOLING"
         THEN data.percent_complete_secondary_schooling
    ELSE IF self = "PERCENT_TERTIARY_SCHOOLING" THEN data.percent_tertiary_schooling
    ELSE IF self = "PERCENT_COMPLETE_TERTIARY_SCHOOLING"
         THEN data.percent_tertiary_schooling
    ELSE IF self = "AVERAGE_YEARS_SCHOOLING" THEN data.avg_years_schooling
    ELSE IF self = "AVERAGE_YEARS_PRIMARY_SCHOOLING"
         THEN data.avg_years_primary_schooling
    ELSE IF self = "AVERAGE_YEARS_SECONDARY_SCHOOLING"
         THEN data.avg_years_secondary_schooling
    ELSE data.avg_years_tertiary_schooling

\* EducationAttainment.extract_data: the if/elif chain over the members.
extract_data(self, data) ==
    IF self = "PERCENT_NO_SCHOOLING" THEN data.percent_no_schooling
    ELSE IF self = "PERCENT_PRIMARY_SCHOOLING" THEN data.percent_primary_schooling
    ELSE IF self = "PERCENT_COMPLETE_PRIMARY_SCHOOLING"
         THEN data.percent_complete_primary_schooling
    ELSE IF self = "PERCENT_SECONDARY_SCHOOLING" THEN data.percent_secondary_schooling
    ELSE IF self = "PERCENT_COMPLETE_SECONDARY_SCHOOLING"
         THEN data.percent_complete_secondary_schooling
    ELSE IF self = "PERCENT_TERTIARY_SCHOOLING" THEN data.percent_tertiary_schooling
    ELSE IF self = "PERCENT_COMPLETE_TERTIARY_SCHOOLING"
         THEN data.percent_complete_tertiary_schooling
    ELSE IF self = "AVERAGE_YEARS_SCHOOLING" THEN data.avg_years_schooling
    ELSE IF self = "AVERAGE_YEARS_PRIMARY_SCHOOLING"
         THEN data.avg_years_primary_schooling
    ELSE IF self = "AVERAGE_YEARS_SECONDARY_SCHOOLING"
         THEN data.avg_years_secondary_schooling
    ELSE data.avg_years_tertiary_schooling

(***************************************************************************)
(* Python dicts and lists.  A dict is [keys, val]: its keys in insertion   *)
(* order and the value of each key.  The heap holds the dicts that map a   *)
(* country to a list, and those lists; a reference is an index.            *)
(***************************************************************************)
EmptyDict == [keys |-> <<>>, val |-> <<>>]

\* d[k] = v
DictSet(d, k, v) ==
    IF k \in DOMAIN d.val
    THEN [d EXCEPT !.val[k] = v]
    ELSE [keys |-> Append(d.keys, k), val |-> (k :> v) @@ d.val]

EmptyHeap == [dicts |-> <<>>, lists |-> <<>>]

\* {} : a new dict object (its reference is NewDictRef(h)).
NewDictRef(h) == Len(h.dicts) + 1
NewDict(h) == [h EXCEPT !.dicts = Append(@, EmptyDict)]

\* k in d, for the dict object d
HasKey(h, d, k) == k \in DOMAIN h.dicts[d].val

\* d[k] = [row] : a new list object holding row, stored under k
SetNewList(h, d, k, row) ==
    [dicts |-> [h.dicts EXCEPT ![d] = DictSet(@, k, Len(h.lists) + 1)],
     lists |-> Append(h.lists, <<row>>)]

\* d[k].append(row)
AppendTo(h, d, k, row) ==
    [h EXCEPT !.lists[h.dicts[d].val[k]] = Append(@, row)]

\* The list d[k], as the sequence of its rows.
ListOf(h, d, k) == h.lists[h.dicts[d].val[k]]

\* What the dict object d holds: each key's sequence of rows.  Two dicts are
\* equal in Python (==) exactly when these are equal.
Contents(h, d) == [k \in DOMAIN h.dicts[d].val |-> ListOf(h, d, k)]

\* The heap cut back to its first nd dicts and nl lists: the objects a
\* finished call created and returned to no one are dropped.
Collect(h, nd, nl) ==
    [dicts |-> SubSeq(h.dicts, 1, nd), lists |-> SubSeq(h.lists, 1, nl)]

(***************************************************************************)
(* prepare_data.py                                                         *)
(*                                                                         *)
(* Every function takes the heap h and returns [heap, status, value]:      *)
(* the heap after the call, "ok" or the exception raised, and the value    *)
(* returned (a reference for a dict of lists).                             *)
(***************************************************************************)
Return(h, v) == [heap |-> h, status |-> "ok", value |-> v]
Raise(h, e) == [heap |-> h, status |-> e, value |-> NoRef]

\* The grouping both readers end with: the first row of a country starts a
\* new list under a new key, a later row is appended to that list.
StoreRow(h, data_so_far, country, data) ==
    IF ~HasKey(h, data_so_far, country)
    THEN SetNewList(h, data_so_far, country, data)
    ELSE AppendTo(h, data_so_far, country, data)

RECURSIVE ReadRows(_, _, _)
ReadRows(h, data_so_far, rows) ==
    IF rows = <<>> THEN h
    ELSE ReadRows(StoreRow(h, data_so_far, Head(rows).country, Head(rows)),
                  data_so_far, Tail(rows))

\* read_raw_education_data, from the data rows on (a file with the right
\* header, its rows converted).
read_education_rows(h, rows) ==
    LET data_so_far == NewDictRef(h)
    IN  Return(ReadRows(NewDict(h), data_so_far, rows), data_so_far)

\* read_raw_climate_data, from the data rows on (a file with the right
\* header, its rows with a temperature converted).
read_climate_rows(h, rows) ==
    LET data_so_far == NewDictRef(h)
    IN  Return(ReadRows(NewDict(h), data_so_far, rows), data_so_far)

(***************************************************************************)
(* prepare_data.py, the readers from the file on.                          *)
(*                                                                         *)
(* The disk maps a path to a csv file.  A file is the sequence of its      *)
(* rows, the header first; a row is the sequence of its fields.  A field   *)
(* the code converts (a date, a year, an age, a number) is the sequence of *)
(* its characters; a field the code copies or ignores is a string.         *)
(***************************************************************************)
EducationHeader ==
    <<"BLcode", "country", "year", "sex", "agefrom", "ageto", "lu", "lp", "lpc", "ls",
      "lsc", "lh", "lhc", "yr_sch", "yr_sch_pri", "yr_sch_sec", "yr_sch_ter", "pop",
      "WBcode", "region_code">>

ClimateHeader == <<"dt", "AverageTemperature", "AverageTemperatureUncertainty", "Country">>

\* WrongFileError.__init__ and WrongFileError.__str__
WrongFileError(filename) == [filename |-> filename]
WrongFileError__str__(self) == "File " \o self.filename \o " does not match the expected format."

RaiseError(h, error) == [heap |-> h, status |-> "WrongFileError", value |-> error]

DigitValue ==
    "0" :> 0 @@ "1" :> 1 @@ "2" :> 2 @@ "3" :> 3 @@ "4" :> 4 @@
    "5" :> 5 @@ "6" :> 6 @@ "7" :> 7 @@ "8" :> 8 @@ "9" :> 9

IsDigits(text) == text # <<>> /\ \A i \in DOMAIN text : text[i] \in DOMAIN DigitValue

RECURSIVE DigitsValue(_, _)
DigitsValue(acc, text) ==
    IF text = <<>> THEN acc ELSE DigitsValue(10 * acc + DigitValue[Head(text)], Tail(text))

RECURSIVE Pow10(_)
Pow10(k) == IF k = 0 THEN 1 ELSE 10 * Pow10(k - 1)

Unsigned(text) == IF text # <<>> /\ Head(text) = "-" THEN Tail(text) ELSE text
Sign(text) == IF text # <<>> /\ Head(text) = "-" THEN -1 ELSE 1

\* int(text), for the texts [-]digits; anything else is a ValueError.
int(text) ==
    IF IsDigits(Unsigned(text))
    THEN [status |-> "ok", value |-> Sign(text) * DigitsValue(0, Unsigned(text))]
    ELSE [status |-> "ValueError", value |-> NoRef]

\* float(text), for the texts [-]digits[.digits]; anything else is a
\* ValueError.
float(text) ==
    LET body == Unsigned(text)
        dots == {i \in DOMAIN body : body[i] = "."}
        dot == IF dots = {} THEN Len(body) + 1 ELSE CHOOSE i \in dots : TRUE
        whole == SubSeq(body, 1, dot - 1)
        frac == SubSeq(body, dot + 1, Len(body))
    IN  IF Cardinality(dots) <= 1 /\ IsDigits(whole) /\ (dots = {} \/ IsDigits(frac))
        THEN [status |-> "ok",
              value |-> Float(Sign(text) * (DigitsValue(0, whole) * Pow10(Len(frac))
                                            + DigitsValue(0, frac)),
                              Pow10(Len(frac)))]
        ELSE [status |-> "ValueError", value |-> NoRef]

\* The columns read_raw_education_data reads of a row, in the order it reads
\* them (numbered from 0), and how it converts each.
EducationColumns ==
    <<[col |-> 1, as |-> "str"], [col |-> 2, as |-> "int"], [col |-> 4, as |-> "int"],
      [col |-> 5, as |-> "int"], [col |-> 6, as |-> "float"], [col |-> 7, as |-> "float"],
      [col |-> 8, as |-> "float"], [col |-> 9, as |-> "float"], [col |-> 10, as |-> "float"],
      [col |-> 11, as |-> "float"], [col |-> 12, as |-> "float"], [col |-> 13, as |-> "float"],
      [col |-> 14, as |-> "float"], [col |-> 15, as |-> "float"], [col |-> 16, as |-> "float"]>>

\* The values of the columns of one row, or the first error on the way.
RECURSIVE ReadColumns(_, _, _)
ReadColumns(row, columns, values) ==
    IF columns = <<>> THEN [status |-> "ok", value |-> values]
    ELSE LET c == Head(columns)
         IN  IF c.col + 1 > Len(row) THEN [status |-> "IndexError", value |-> NoRef]
             ELSE LET field == row[c.col + 1]
                      v == IF c.as = "int" THEN int(field)
                           ELSE IF c.as = "float" THEN float(field)
                           ELSE [status |-> "ok", value |-> field]
                  IN  IF v.status # "ok" THEN v
                      ELSE ReadColumns(row, Tail(columns), Append(values, v.value))

\* The EducationData of one row of the education file.
EducationDataOfRow(row) ==
    LET v == ReadColumns(row, EducationColumns, <<>>)
    IN  IF v.status # "ok" THEN v
        ELSE [status |-> "ok",
              value |-> EducationData(v.value[1], v.value[2], v.value[3], v.value[4],
                                      [f \in Range(AttainmentFields) |->
                                          v.value[4 + CHOOSE i \in DOMAIN AttainmentFields :
                                                          AttainmentFields[i] = f]])]

\* The EducationData of the rows of the file, or the first error.
RECURSIVE EducationDataOfRows(_, _)
EducationDataOfRows(rows, data) ==
    IF rows = <<>> THEN [status |-> "ok", value |-> data]
    ELSE LET d == EducationDataOfRow(Head(rows))
         IN  IF d.status # "ok" THEN d
             ELSE EducationDataOfRows(Tail(rows), Append(data, d.value))

\* A change: the header is accepted when it has the expected columns in any
\* order.
SameColumns(header, expected) == Range(header) = Range(expected)

\* header != '...'.split(',') is false
SameHeader(header, expected) == header = expected

read_raw_education_data(h, filename, disk) ==
    IF filename \notin DOMAIN disk THEN Raise(h, "FileNotFoundError")
    ELSE LET reader == disk[filename]
         IN  IF reader = <<>> THEN Raise(h, "StopIteration")
             ELSE IF ~SameHeader(Head(reader), EducationHeader)
             THEN RaiseError(h, WrongFileError(filename))
             ELSE LET data == EducationDataOfRows(Tail(reader), <<>>)
                  IN  IF data.status # "ok" THEN Raise(h, data.status)
                      ELSE read_education_rows(h, data.value)

\* text[0:4]
FirstFour(text) == SubSeq(text, 1, IF Len(text) < 4 THEN Len(text) ELSE 4)

\* A change: a row without a temperature is converted like any other row.
ClimateDataOfAnyRow(row) ==
    IF Len(row) < 4 THEN [status |-> "IndexError", value |-> NoRef]
    ELSE LET year == int(FirstFour(row[1]))
             avg_temp == float(row[2])
         IN  IF year.status # "ok" THEN year
             ELSE IF avg_temp.status # "ok" THEN avg_temp
             ELSE [status |-> "ok",
                   value |-> <<ClimateData(row[4], year.value, avg_temp.value)>>]

\* The ClimateData of one row of the climate file: none for a row without a
\* temperature.
ClimateDataOfRow(row) ==
    IF Len(row) < 2 THEN [status |-> "IndexError", value |-> NoRef]
    ELSE IF row[2] = <<>> THEN [status |-> "ok", value |-> <<>>]
    ELSE IF Len(row) < 4 THEN [status |-> "IndexError", value |-> NoRef]
    ELSE LET year == int(FirstFour(row[1]))
             avg_temp == float(row[2])
         IN  IF year.status # "ok" THEN year
             ELSE IF avg_temp.status # "ok" THEN avg_temp
             ELSE [status |-> "ok",
                   value |-> <<ClimateData(row[4], year.value, avg_temp.value)>>]

RECURSIVE ClimateDataOfRows(_, _)
ClimateDataOfRows(rows, data) ==
    IF rows = <<>> THEN [status |-> "ok", value |-> data]
    ELSE LET d == ClimateDataOfRow(Head(rows))
         IN  IF d.status # "ok" THEN d
             ELSE ClimateDataOfRows(Tail(rows), data \o d.value)

read_raw_climate_data(h, filename, disk) ==
    IF filename \notin DOMAIN disk THEN Raise(h, "FileNotFoundError")
    ELSE LET reader == disk[filename]
         IN  IF reader = <<>> THEN Raise(h, "StopIteration")
             ELSE IF ~SameHeader(Head(reader), ClimateHeader)
             THEN RaiseError(h, WrongFileError("File " \o filename
                                                \o " does not match the expected format."))
             ELSE LET data == ClimateDataOfRows(Tail(reader), <<>>)
                  IN  IF data.status # "ok" THEN Raise(h, data.status)
                      ELSE read_climate_rows(h, data.value)

\* The inner loop of filter_education_data over the rows of one country.
RECURSIVE FilterEducationRows(_, _, _, _, _)
FilterEducationRows(h, filtered_education_data, country, rows, years) ==
    IF rows = <<>> THEN h
    ELSE LET row == Head(rows)
             h1 == IF row.year \in years
                   THEN IF ~HasKey(h, filtered_education_data, country)
                        THEN SetNewList(h, filtered_education_data, country, row)
                        ELSE AppendTo(h, filtered_education_data, country, row)
                   ELSE h
         IN  FilterEducationRows(h1, filtered_education_data, country, Tail(rows), years)

\* A change: a country that is not a key of education_data is passed over.
RECURSIVE FilterEducationCountriesLenient(_, _, _, _, _)
FilterEducationCountriesLenient(h, filtered_education_data, education_data, countries, years) ==
    IF countries = <<>> THEN Return(h, filtered_education_data)
    ELSE LET country == Head(countries)
         IN  FilterEducationCountriesLenient(
                 IF ~HasKey(h, education_data, country) THEN h
                 ELSE FilterEducationRows(h, filtered_education_data, country,
                                          ListOf(h, education_data, country), years),
                 filtered_education_data, education_data, Tail(countries), years)

\* The outer loop of filter_education_data; countries is the set in the
\* order the for statement enumerates it.
RECURSIVE FilterEducationCountries(_, _, _, _, _)
FilterEducationCountries(h, filtered_education_data, education_data, countries, years) ==
    IF countries = <<>> THEN Return(h, filtered_education_data)
    ELSE LET country == Head(countries)
         IN  IF ~HasKey(h, education_data, country)
             THEN Raise(h, "KeyError")
             ELSE FilterEducationCountries(
                      FilterEducationRows(h, filtered_education_data, country,
                                          ListOf(h, education_data, country), years),
                      filtered_education_data, education_data, Tail(countries), years)

filter_education_data(h, education_data, countries, years) ==
    FilterEducationCountries(NewDict(h), NewDictRef(h), education_data, countries, years)

\* A slip: the test of the year is left out, every row of the country is kept.
RECURSIVE FilterClimateRowsOfAnyYear(_, _, _, _, _)
FilterClimateRowsOfAnyYear(h, filtered_climate_data, country, rows, years) ==
    IF rows = <<>> THEN h
    ELSE LET row == Head(rows)
             h1 == IF ~HasKey(h, filtered_climate_data, country)
                   THEN SetNewList(h, filtered_climate_data, country, row)
                   ELSE AppendTo(h, filtered_climate_data, country, row)
         IN  FilterClimateRowsOfAnyYear(h1, filtered_climate_data, country, Tail(rows), years)

\* The inner loop of filter_climate_data over the rows of one country.
RECURSIVE FilterClimateRows(_, _, _, _, _)
FilterClimateRows(h, filtered_climate_data, country, rows, years) ==
    IF rows = <<>> THEN h
    ELSE LET row == Head(rows)
             h1 == IF row.year \in years
                   THEN IF ~HasKey(h, filtered_climate_data, country)
                        THEN SetNewList(h, filtered_climate_data, country, row)
                        ELSE AppendTo(h, filtered_climate_data, country, row)
                   ELSE h
         IN  FilterClimateRows(h1, filtered_climate_data, country, Tail(rows), years)

\* The outer loop of filter_climate_data.
RECURSIVE FilterClimateCountries(_, _, _, _, _)
FilterClimateCountries(h, filtered_climate_data, climate_data, countries, years) ==
    IF countries = <<>> THEN Return(h, filtered_climate_data)
    ELSE LET country == Head(countries)
         IN  IF ~HasKey(h, climate_data, country)
             THEN Raise(h, "KeyError")
             ELSE FilterClimateCountries(
                      FilterClimateRows(h, filtered_climate_data, country,
                                        ListOf(h, climate_data, country), years),
                      filtered_climate_data, climate_data, Tail(countries), years)

filter_climate_data(h, climate_data, countries, years) ==
    FilterClimateCountries(NewDict(h), NewDictRef(h), climate_data, countries, years)

\* A slip: a later row of a year replaces the earlier ones.
RECURSIVE ClimateYearMappingLastRow(_, _)
ClimateYearMappingLastRow(year_mapping, rows) ==
    IF rows = <<>> THEN year_mapping
    ELSE ClimateYearMappingLastRow(DictSet(year_mapping, Head(rows).year, <<Head(rows)>>),
                                   Tail(rows))

\* year_mapping of calculate_yearly_avgs: the rows of one country grouped by
\* year, the years in the order of their first row.
RECURSIVE ClimateYearMapping(_, _)
ClimateYearMapping(year_mapping, rows) ==
    IF rows = <<>> THEN year_mapping
    ELSE LET row == Head(rows)
         IN  ClimateYearMapping(
                 IF row.year \notin DOMAIN year_mapping.val
                 THEN DictSet(year_mapping, row.year, <<row>>)
                 ELSE DictSet(year_mapping, row.year,
                              Append(year_mapping.val[row.year], row)),
                 Tail(rows))

\* avg_so_far after the loop over rows, before the division.
RECURSIVE SumTemps(_, _)
SumTemps(avg_so_far, rows) ==
    IF rows = <<>> THEN avg_so_far
    ELSE SumTemps(FAdd(avg_so_far, Head(rows).avg_temp), Tail(rows))

\* The loop of calculate_yearly_avgs over the years of one country.
RECURSIVE StoreYearlyAvgs(_, _, _, _, _)
StoreYearlyAvgs(h, filtered_climate_data, country, year_mapping, years) ==
    IF years = <<>> THEN h
    ELSE LET year == Head(years)
             rows == year_mapping.val[year]
             avg_so_far == FDivInt(SumTemps(FromInt(0), rows), Len(rows))
             new_row == ClimateData(country, year, avg_so_far)
             h1 == IF ~HasKey(h, filtered_climate_data, country)
                   THEN SetNewList(h, filtered_climate_data, country, new_row)
                   ELSE AppendTo(h, filtered_climate_data, country, new_row)
         IN  StoreYearlyAvgs(h1, filtered_climate_data, country, year_mapping, Tail(years))

\* The loop of calculate_yearly_avgs over the countries, in key order.
RECURSIVE YearlyAvgsCountries(_, _, _, _)
YearlyAvgsCountries(h, filtered_climate_data, climate_data, countries) ==
    IF countries = <<>> THEN h
    ELSE LET country == Head(countries)
             year_mapping == ClimateYearMapping(EmptyDict, ListOf(h, climate_data, country))
         IN  YearlyAvgsCountries(
                 StoreYearlyAvgs(h, filtered_climate_data, country, year_mapping,
                                 year_mapping.keys),
                 filtered_climate_data, climate_data, Tail(countries))

\* A change: the rows of every country are replaced, in the lists that were
\* passed in, by their yearly averages, and the argument itself is returned.
calculate_yearly_avgs_in_place(h, climate_data) ==
    LET h1 == YearlyAvgsCountries(NewDict(h), NewDictRef(h), climate_data,
                                  h.dicts[climate_data].keys)
        old == h.dicts[climate_data].val
        avgs == h1.dicts[NewDictRef(h)].val
        lists == [l \in DOMAIN h1.lists |->
                     IF \E k \in DOMAIN old : old[k] = l
                     THEN h1.lists[avgs[CHOOSE k \in DOMAIN old : old[k] = l]]
                     ELSE h1.lists[l]]
    IN  Return([h1 EXCEPT !.lists = lists], climate_data)

calculate_yearly_avgs(h, climate_data) ==
    Return(YearlyAvgsCountries(NewDict(h), NewDictRef(h), climate_data,
                               h.dicts[climate_data].keys),
           NewDictRef(h))

\* {data.year for country in data for data in data[country]}
YearsOf(h, d) ==
    {ListOf(h, d, c)[i].year : <<c, i>> \in
        UNION {{<<k, j>> : j \in 1..Len(ListOf(h, d, k))} : k \in DOMAIN h.dicts[d].val}}

\* set.intersection(education_countries, climate_countries)
FilteredCountries(h, education_data, climate_data) ==
    DOMAIN h.dicts[education_data].val \cap DOMAIN h.dicts[climate_data].val

\* A slip: the union of the two year sets in place of their intersection.
FilteredYearsUnion(h, education_data, climate_data) ==
    YearsOf(h, education_data) \cup YearsOf(h, climate_data)

\* set.intersection(education_years, climate_years)
FilteredYears(h, education_data, climate_data) ==
    YearsOf(h, education_data) \cap YearsOf(h, climate_data)

\* A slip: the yearly averages are left out.
process_data_without_avgs(h, education_data, climate_data, order) ==
    LET filtered_years == FilteredYears(h, education_data, climate_data)
        e == filter_education_data(h, education_data, order, filtered_years)
        c == filter_climate_data(e.heap, climate_data, order, filtered_years)
    IN  Return(c.heap, <<e.value, c.value>>)

\* process_data; order is the order in which the two filters enumerate the
\* set filtered_countries.
process_data(h, education_data, climate_data, order) ==
    LET filtered_years == FilteredYears(h, education_data, climate_data)
        e == filter_education_data(h, education_data, order, filtered_years)
        c == filter_climate_data(e.heap, climate_data, order, filtered_years)
        a == calculate_yearly_avgs(c.heap, c.value)
    IN  Return(a.heap, <<e.value, a.value>>)

(***************************************************************************)
(* compute_data.py                                                         *)
(*                                                                         *)
(* The dicts these functions return map a year to one row; they are new    *)
(* objects handed to the caller and are modelled as the values [keys, val].*)
(***************************************************************************)
\* {row.year: row for row in rows}: a later row of a year replaces the
\* earlier one and keeps the key's place.
RECURSIVE YearDict(_, _)
YearDict(converted_data, rows) ==
    IF rows = <<>> THEN converted_data
    ELSE YearDict(DictSet(converted_data, Head(rows).year, Head(rows)), Tail(rows))

convert_climate_data(h, country_name, climate_data) ==
    IF ~HasKey(h, climate_data, country_name)
    THEN Raise(h, "KeyError")
    ELSE Return(h, YearDict(EmptyDict, ListOf(h, climate_data, country_name)))

\* A slip: start_age is compared with age_to, so a band that only reaches
\* into the range is taken too.
RECURSIVE EducationYearMappingOverlap(_, _, _, _)
EducationYearMappingOverlap(year_mapping, rows, start_age, end_age) ==
    IF rows = <<>> THEN year_mapping
    ELSE LET row == Head(rows)
         IN  EducationYearMappingOverlap(
                 IF start_age <= row.age_to /\ row.age_to <= end_age
                 THEN IF row.year \notin DOMAIN year_mapping.val
                      THEN DictSet(year_mapping, row.year, <<row>>)
                      ELSE DictSet(year_mapping, row.year,
                                   Append(year_mapping.val[row.year], row))
                 ELSE year_mapping,
                 Tail(rows), start_age, end_age)

\* year_mapping of convert_education_data: the rows of the country whose age
\* band lies within [start_age, end_age], grouped by year.
RECURSIVE EducationYearMapping(_, _, _, _)
EducationYearMapping(year_mapping, rows, start_age, end_age) ==
    IF rows = <<>> THEN year_mapping
    ELSE LET row == Head(rows)
         IN  EducationYearMapping(
                 IF start_age <= row.age_from /\ row.age_to <= end_age
                 THEN IF row.year \notin DOMAIN year_mapping.val
                      THEN DictSet(year_mapping, row.year, <<row>>)
                      ELSE DictSet(year_mapping, row.year,
                                   Append(year_mapping.val[row.year], row))
                 ELSE year_mapping,
                 Tail(rows), start_age, end_age)

\* The eleven accumulators, all 0 before the loop over the rows of a year.
ZeroAttainment == [f \in Range(AttainmentFields) |-> FromInt(0)]

\* The eleven accumulators after the loop: each field summed on its own.
RECURSIVE SumAttainment(_, _)
SumAttainment(acc, rows) ==
    IF rows = <<>> THEN acc
    ELSE SumAttainment([f \in Range(AttainmentFields) |-> FAdd(acc[f], Head(rows)[f])],
                       Tail(rows))

\* The eleven divisions by len(year_mapping[year]).
DivideAttainment(acc, n) == [f \in Range(AttainmentFields) |-> FDivInt(acc[f], n)]

\* The loop of convert_education_data over the years of year_mapping.
RECURSIVE AverageYears(_, _, _, _, _, _)
AverageYears(converted_data, country_name, start_age, end_age, year_mapping, years) ==
    IF years = <<>> THEN converted_data
    ELSE LET year == Head(years)
             rows == year_mapping.val[year]
             means == DivideAttainment(SumAttainment(ZeroAttainment, rows), Len(rows))
             new_education_data ==
                 EducationData(country_name, year, start_age, end_age, means)
         IN  AverageYears(DictSet(converted_data, year, new_education_data),
                          country_name, start_age, end_age, year_mapping, Tail(years))

convert_education_data(h, country_name, start_age, end_age, education_data) ==
    IF ~HasKey(h, education_data, country_name)
    THEN Raise(h, "KeyError")
    ELSE LET year_mapping ==
                 EducationYearMapping(EmptyDict, ListOf(h, education_data, country_name),
                                      start_age, end_age)
         IN  Return(h, AverageYears(EmptyDict, country_name, start_age, end_age,
                                    year_mapping, year_mapping.keys))

\* A change: a year that is missing from one of the converted dicts is left
\* out of the series.
RECURSIVE RelationPointsSkipping(_, _, _, _, _)
RelationPointsSkipping(pts, years, converted_climate_data, converted_education_data, education_attainment) ==
    IF years = <<>> THEN [status |-> "ok", value |-> pts]
    ELSE LET year == Head(years)
         IN  IF year \notin DOMAIN converted_climate_data.val
                \/ year \notin DOMAIN converted_education_data.val
             THEN RelationPointsSkipping(pts, Tail(years), converted_climate_data,
                                         converted_education_data, education_attainment)
             ELSE RelationPointsSkipping(
                      <<Append(pts[1], converted_climate_data.val[year].avg_temp),
                        Append(pts[2], extract_data(education_attainment,
                                                    converted_education_data.val[year]))>>,
                      Tail(years), converted_climate_data, converted_education_data,
                      education_attainment)

\* The loop of create_data_relation over years; pts is <<x_points, y_points>>.
RECURSIVE RelationPoints(_, _, _, _, _)
RelationPoints(pts, years, converted_climate_data, converted_education_data, education_attainment) ==
    IF years = <<>> THEN [status |-> "ok", value |-> pts]
    ELSE LET year == Head(years)
         IN  IF year \notin DOMAIN converted_climate_data.val
                \/ year \notin DOMAIN converted_education_data.val
             THEN [status |-> "KeyError", value |-> NoRef]
             ELSE RelationPoints(
                      <<Append(pts[1], converted_climate_data.val[year].avg_temp),
                        Append(pts[2], extract_data(education_attainment,
                                                    converted_education_data.val[year]))>>,
                      Tail(years), converted_climate_data, converted_education_data,
                      education_attainment)

create_data_relation(h, country_name, start_age, end_age, education_attainment, climate_data, education_data) ==
    IF ~HasKey(h, climate_data, country_name)
    THEN Raise(h, "KeyError")
    ELSE LET rows == ListOf(h, climate_data, country_name)
             years == [i \in 1..Len(rows) |-> rows[i].year]
             converted_climate_data == convert_climate_data(h, country_name, climate_data)
             converted_education_data ==
                 convert_education_data(converted_climate_data.heap, country_name,
                                        start_age, end_age, education_data)
         IN  IF converted_education_data.status # "ok"
             THEN Raise(converted_education_data.heap, converted_education_data.status)
             ELSE LET r == RelationPoints(<<<<>>, <<>>>>, years,
                                          converted_climate_data.value,
                                          converted_education_data.value,
                                          education_attainment)
                  IN  [heap |-> converted_education_data.heap,
                       status |-> r.status, value |-> r.value]

(***************************************************************************)
(* visualize_data.py                                                       *)
(*                                                                         *)
(* plot_datasets ends with a call of plot_two_scatter_plots, which hands   *)
(* its arguments to plotly; the model returns these arguments.             *)
(***************************************************************************)
\* list(d.values()): the values in the order of the keys.
DictValues(d) == [i \in DOMAIN d.keys |-> d.val[d.keys[i]]]

plot_datasets(h, country_name, start_age, end_age, climate_data, education_data, education_attainment) ==
    LET converted_climate_data == convert_climate_data(h, country_name, climate_data)
    IN  IF converted_climate_data.status # "ok"
        THEN Raise(h, converted_climate_data.status)
        ELSE LET years == converted_climate_data.value.keys
                 rows_climate == DictValues(converted_climate_data.value)
                 avg_temps == [i \in DOMAIN rows_climate |-> rows_climate[i].avg_temp]
                 converted_education_data ==
                     convert_education_data(converted_climate_data.heap, country_name,
                                            start_age, end_age, education_data)
             IN  IF converted_education_data.status # "ok"
                 THEN Raise(h, converted_education_data.status)
                 ELSE LET rows_education == DictValues(converted_education_data.value)
                          attainment ==
                              [i \in DOMAIN rows_education |->
                                  extract_data(education_attainment, rows_education[i])]
                      IN  Return(converted_education_data.heap,
                                 [xa_points |-> years, ya_points |-> avg_temps,
                                  xb_points |-> years, yb_points |-> attainment])

(***************************************************************************)
(* compute_data.py, calculate_linear_regression.                           *)
(*                                                                         *)
(* Here the rounding of float arithmetic decides what the function does    *)
(* (whether a denominator is zero), so every operation is rounded to the   *)
(* nearest float, ties to even.  A float of the model has MantissaBits     *)
(* significant bits where Python's has 53; exponents are unbounded.  A     *)
(* computed value is [v, inexact]: the float and whether some operation    *)
(* on the way to it was rounded (the inexact flag of IEEE 754).            *)
(***************************************************************************)
MantissaBits == 3

RECURSIVE Pow2(_)
Pow2(k) == IF k = 0 THEN 1 ELSE 2 * Pow2(k - 1)

\* The integer nearest to a/d (a >= 0, d > 0), the even one on a tie.
RoundHalfEven(a, d) ==
    LET q == a \div d
        r == a % d
    IN  IF 2 * r < d THEN q
        ELSE IF 2 * r > d THEN q + 1
        ELSE IF q % 2 = 0 THEN q ELSE q + 1

\* The float nearest to sign * (a/d) * (down/up): a/d is doubled or halved
\* until its integer part has MantissaBits bits, then rounded.
RECURSIVE RoundScaled(_, _, _, _, _)
RoundScaled(sign, a, d, up, down) ==
    IF a < Pow2(MantissaBits - 1) * d THEN RoundScaled(sign, 2 * a, d, 2 * up, down)
    ELSE IF a >= Pow2(MantissaBits) * d THEN RoundScaled(sign, a, 2 * d, up, 2 * down)
    ELSE Float(sign * RoundHalfEven(a, d) * down, up)

RoundFloat(q) ==
    IF q.num = 0 THEN q
    ELSE RoundScaled(IF q.num < 0 THEN -1 ELSE 1, Abs(q.num), q.den, 1, 1)

FSub(a, b) == Float(a.num * b.den - b.num * a.den, a.den * b.den)
FMul(a, b) == Float(a.num * b.num, a.den * b.den)
\* a / b for b # 0
FDiv(a, b) ==
    Float((IF b.num < 0 THEN -1 ELSE 1) * a.num * b.den, a.den * Abs(b.num))

Given(q) == [v |-> q, inexact |-> FALSE]
Rounded(inexact, q) ==
    LET r == RoundFloat(q) IN [v |-> r, inexact |-> inexact \/ r # q]

RAdd(a, b) == Rounded(a.inexact \/ b.inexact, FAdd(a.v, b.v))
RSub(a, b) == Rounded(a.inexact \/ b.inexact, FSub(a.v, b.v))
RMul(a, b) == Rounded(a.inexact \/ b.inexact, FMul(a.v, b.v))
RDiv(a, b) == Rounded(a.inexact \/ b.inexact, FDiv(a.v, b.v))

\* sum(points): 0 + points[0] + points[1] + ..., from left to right.
RECURSIVE RSum(_, _)
RSum(acc, points) ==
    IF points = <<>> THEN acc ELSE RSum(RAdd(acc, Head(points)), Tail(points))

\* sum(points) / len(points) for a non-empty list.
Average(points) ==
    RDiv(RSum(Given(FromInt(0)), [i \in DOMAIN points |-> Given(points[i])]),
         Given(FromInt(Len(points))))

\* A change: a zero denominator gives the slope 0.
SlopeOrZero(b_numerator, b_denominator) ==
    IF b_denominator.v.num = 0
    THEN [status |-> "ok", value |-> Given(FromInt(0))]
    ELSE [status |-> "ok", value |-> RDiv(b_numerator, b_denominator)]

\* b = b_numerator / b_denominator
Slope(b_numerator, b_denominator) ==
    IF b_denominator.v.num = 0
    THEN [status |-> "ZeroDivisionError", value |-> NoRef]
    ELSE [status |-> "ok", value |-> RDiv(b_numerator, b_denominator)]

\* A change: the intercept is taken at the mean of y.
InterceptAtMeanY(y_average, b, x_average) == RSub(y_average, RMul(b, y_average))

\* a = y_average - b * x_average
Intercept(y_average, b, x_average) == RSub(y_average, RMul(b, x_average))

\* The function returns [status, value, inexact]; value is <<a, b>>.
calculate_linear_regression(x_points, y_points) ==
    IF x_points = <<>> \/ y_points = <<>>
    THEN [status |-> "ZeroDivisionError", value |-> NoRef, inexact |-> FALSE]
    ELSE LET x_average == Average(x_points)
             y_average == Average(y_points)
             n == Len(x_points)
         IN  IF Len(y_points) < n
             THEN [status |-> "IndexError", value |-> NoRef, inexact |-> FALSE]
             ELSE LET dx == [i \in 1..n |-> RSub(Given(x_points[i]), x_average)]
                      dy == [i \in 1..n |-> RSub(Given(y_points[i]), y_average)]
                      b_numerator ==
                          RSum(Given(FromInt(0)), [i \in 1..n |-> RMul(dx[i], dy[i])])
                      b_denominator ==
                          RSum(Given(FromInt(0)), [i \in 1..n |-> RMul(dx[i], dx[i])])
                      b == Slope(b_numerator, b_denominator)
                  IN  IF b.status # "ok"
                      THEN [status |-> b.status, value |-> NoRef,
                            inexact |-> b_denominator.inexact]
                      ELSE LET a == Intercept(y_average, b.value, x_average)
                           IN  [status |-> "ok", value |-> <<a.v, b.value.v>>,
                                inexact |-> a.inexact]

(***************************************************************************)
(* The inputs: the rows the two files may hold.                            *)
(***************************************************************************)
FieldIndex(f) == CHOOSE i \in 1..Len(AttainmentFields) : AttainmentFields[i] = f

\* The eleven attainment values of a data row: 10*s in the first column,
\* 10*s + 1 in the second, ...
RowAttainment(s) == [f \in Range(AttainmentFields) |-> FromInt(10 * s + FieldIndex(f) - 1)]

EducationRowPool ==
    {EducationData("Canada", 2000, 15, 19, RowAttainment(1)),
     EducationData("Canada", 2000, 20, 24, RowAttainment(2)),
     EducationData("Canada", 2005, 15, 19, RowAttainment(3)),
     EducationData("Canada", 2000, 15, 19, RowAttainment(4)),
     EducationData("Brazil", 2000, 15, 19, RowAttainment(2))}

ClimateRowPool ==
    {ClimateData("Canada", 2000, FromInt(10)),
     ClimateData("Canada", 2000, FromInt(20)),
     ClimateData("Canada", 2005, FromInt(5)),
     ClimateData("Brazil", 2005, FromInt(20))}

(***************************************************************************)
(* The files: how a row of data is written in a csv file, and the files    *)
(* the readers are tried on.                                               *)
(***************************************************************************)
DigitChars == <<"0", "1", "2", "3", "4", "5", "6", "7", "8", "9">>

\* The decimal digits of a natural number.
RECURSIVE Digits(_)
Digits(n) ==
    IF n < 10 THEN <<DigitChars[n + 1]>>
    ELSE Digits(n \div 10) \o <<DigitChars[(n % 10) + 1]>>

\* A number of tenths written with one decimal: 10.0, 20.5, -3.5.
Decimal(f) ==
    (IF f.num < 0 THEN <<"-">> ELSE <<>>)
    \o Digits(Abs(f.num) \div f.den) \o <<".">> \o Digits(((Abs(f.num) % f.den) * 10) \div f.den)

\* The row of the education file for a record: BLcode, country, year, sex,
\* agefrom, ageto, the eleven numbers, pop, WBcode, region_code.
EducationCsvRow(r, sex) ==
    <<"1", r.country, Digits(r.year), sex, Digits(r.age_from), Digits(r.age_to)>>
    \o [i \in DOMAIN AttainmentFields |-> Decimal(r[AttainmentFields[i]])]
    \o <<"1000", "WB", "Region">>

\* The row of the climate file for a record: dt, AverageTemperature,
\* AverageTemperatureUncertainty, Country.  rest is the date after the year.
ClimateCsvRow(r, rest) == <<Digits(r.year) \o rest, Decimal(r.avg_temp), "0.5", r.country>>

January == <<"-", "0", "1", "-", "0", "1">>
February == <<"-", "0", "2", "-", "0", "1">>

\* Rows of a climate file: with a temperature, without one, and one whose
\* temperature is not a number.
ClimateCsvData ==
    {ClimateCsvRow(ClimateData("Canada", 2000, FromInt(10)), January),
     ClimateCsvRow(ClimateData("Canada", 2000, Float(41, 2)), February),
     ClimateCsvRow(ClimateData("Brazil", 2005, Float(-7, 2)), January)}

ClimateCsvMissing ==
    {<<Digits(2000) \o February, <<>>, "", "Canada">>,
     <<Digits(2005) \o January, <<>>, "", "Peru">>}

ClimateCsvPool ==
    ClimateCsvData \cup ClimateCsvMissing
    \cup {<<Digits(2005) \o January, <<"n", "a">>, "0.5", "Canada">>}

\* Rows of an education file: two rows of data and one whose year is not a
\* number.
EducationCsvPool ==
    {EducationCsvRow(EducationData("Canada", 2000, 15, 19, RowAttainment(1)), "MF"),
     EducationCsvRow(EducationData("Brazil", 2005, 20, 24, RowAttainment(2)), "F"),
     [EducationCsvRow(EducationData("Canada", 2000, 15, 19, RowAttainment(1)), "MF")
         EXCEPT ![3] = <<"y">>]}

\* Headers that differ from the expected one: in the case of a column, in
\* the order of two columns, in the spelling of a column, in the number of
\* columns.
WrongHeaders(expected) ==
    {[expected EXCEPT ![1] = "Column"],
     [expected EXCEPT ![2] = "COUNTRY"],
     [expected EXCEPT ![1] = expected[2], ![2] = expected[1]],
     SubSeq(expected, 1, Len(expected) - 1),
     Append(expected, "extra"),
     <<>>}

EducationHeaders ==
    {EducationHeader, ClimateHeader, [EducationHeader EXCEPT ![1] = "blcode"]}
    \cup WrongHeaders(EducationHeader)

ClimateHeaders ==
    {ClimateHeader, EducationHeader, [ClimateHeader EXCEPT ![4] = "country"]}
    \cup WrongHeaders(ClimateHeader)

MaxEducationCsvRows == 2
MaxClimateCsvRows == 3

\* A file without any row, and the files with a header and rows.
EducationFiles ==
    {<<>>} \cup {<<header>> \o rows : header \in EducationHeaders,
                                     rows \in SeqsUpTo(EducationCsvPool, MaxEducationCsvRows)}

ClimateFiles ==
    {<<>>} \cup {<<header>> \o rows : header \in ClimateHeaders,
                                     rows \in SeqsUpTo(ClimateCsvPool, MaxClimateCsvRows)}

\* The paths a reader is given: one of a file and one of no file.
ReaderPaths == {"data/file.csv", "nowhere.csv"}

Countries == {r.country : r \in EducationRowPool \cup ClimateRowPool}
Years == {r.year : r \in EducationRowPool \cup ClimateRowPool}

\* The age ranges asked for: one band, both bands, one that holds the second
\* band and cuts the first, and one no row lies in.
AgeRanges == {<<15, 19>>, <<15, 24>>, <<17, 24>>, <<25, 29>>}

\* The points calculate_linear_regression is tried on: up to MaxPoints values
\* of x and of y, all of them floats of MantissaBits bits.
MaxPoints == 3
XValues == {FromInt(1), FromInt(2), FromInt(3)}
YValues == {FromInt(1), FromInt(2), FromInt(3), FromInt(4), FromInt(6)}

NoCall == [op |-> "none"]
NoError == "no error dialog"

Init ==
    \E er \in SeqsUpTo(EducationRowPool, MaxEducationRows),
       cr \in SeqsUpTo(ClimateRowPool, MaxClimateRows) :
        LET e == read_education_rows(EmptyHeap, er)
            c == read_climate_rows(e.heap, cr)
        IN  /\ education_rows = er
            /\ climate_rows = cr
            /\ heap = c.heap
            /\ raw_education_data = e.value
            /\ raw_climate_data = c.value
            /\ _education_data = NoRef
            /\ _climate_data = NoRef
            /\ returned = <<>>
            /\ last = NoCall
            /\ ent_education_data = ""
            /\ ent_climate_data = ""
            /\ lbl_output = ""
            /\ after = <<>>
            /\ raised = "LoadDataPage"
            /\ cmb_country = <<>>
            /\ showerror = NoError
            /\ process_calls = <<>>

\* The heap once a call has returned and its result has been looked at: the
\* objects the call created are dropped, every older object is kept as it is.
AfterCall(h) == Collect(h, Len(heap.dicts), Len(heap.lists))

\* What a call returned, as contents: the rows under each key.
Outcome(r) == IF r.status = "ok" THEN Contents(r.heap, r.value) ELSE NoRef

(***************************************************************************)
(* The operations.                                                         *)
(***************************************************************************)
\* main.py read_data: process the raw data and hand both results to the App.
LoadData ==
    /\ last = NoCall
    /\ _education_data = NoRef
    /\ \E order \in Orders(FilteredCountries(heap, raw_education_data, raw_climate_data)) :
        LET r == process_data(heap, raw_education_data, raw_climate_data, order)
            out == <<Contents(r.heap, r.value[1]), Contents(r.heap, r.value[2])>>
        IN  /\ heap' = r.heap
            /\ _education_data' = r.value[1]
            /\ _climate_data' = r.value[2]
            /\ returned' = out
            /\ last' = [op |-> "process_data", again |-> FALSE,
                        education |-> Contents(heap, raw_education_data),
                        climate |-> Contents(heap, raw_climate_data),
                        status |-> r.status, value |-> out]
    /\ UNCHANGED <<gui, education_rows, climate_rows, raw_education_data, raw_climate_data>>

\* process_data on the two dicts process_data returned.
ProcessAgain ==
    /\ last = NoCall
    /\ _education_data # NoRef
    /\ \E order \in Orders(FilteredCountries(heap, _education_data, _climate_data)) :
        LET r == process_data(heap, _education_data, _climate_data, order)
        IN  /\ heap' = AfterCall(r.heap)
            /\ last' = [op |-> "process_data", again |-> TRUE,
                        education |-> Contents(heap, _education_data),
                        climate |-> Contents(heap, _climate_data),
                        status |-> r.status,
                        value |-> <<Contents(r.heap, r.value[1]),
                                    Contents(r.heap, r.value[2])>>]
    /\ UNCHANGED <<gui, education_rows, climate_rows, raw_education_data, raw_climate_data,
                   _education_data, _climate_data, returned>>

FilterEducation ==
    /\ last = NoCall
    /\ \E countries \in SUBSET Countries, years \in SUBSET Years :
        \E order \in Orders(countries) :
            LET r == filter_education_data(heap, raw_education_data, order, years)
            IN  /\ heap' = AfterCall(r.heap)
                /\ last' = [op |-> "filter_education_data",
                            source |-> Contents(heap, raw_education_data),
                            countries |-> countries, years |-> years,
                            status |-> r.status, value |-> Outcome(r)]
    /\ UNCHANGED <<gui, education_rows, climate_rows, raw_education_data, raw_climate_data,
                   _education_data, _climate_data, returned>>

FilterClimate ==
    /\ last = NoCall
    /\ \E countries \in SUBSET Countries, years \in SUBSET Years :
        \E order \in Orders(countries) :
            LET r == filter_climate_data(heap, raw_climate_data, order, years)
            IN  /\ heap' = AfterCall(r.heap)
                /\ last' = [op |-> "filter_climate_data",
                            source |-> Contents(heap, raw_climate_data),
                            countries |-> countries, years |-> years,
                            status |-> r.status, value |-> Outcome(r)]
    /\ UNCHANGED <<gui, education_rows, climate_rows, raw_education_data, raw_climate_data,
                   _education_data, _climate_data, returned>>

YearlyAvgs ==
    /\ last = NoCall
    /\ LET r == calculate_yearly_avgs(heap, raw_climate_data)
       IN  /\ heap' = AfterCall(r.heap)
           /\ last' = [op |-> "calculate_yearly_avgs",
                       climate |-> Contents(heap, raw_climate_data),
                       status |-> r.status, value |-> Outcome(r)]
    /\ UNCHANGED <<gui, education_rows, climate_rows, raw_education_data, raw_climate_data,
                   _education_data, _climate_data, returned>>

\* The education dicts a conversion can be given: the raw one and, once
\* loaded, the processed one.
EducationDicts == {raw_education_data, _education_data} \ {NoRef}

ConvertEducation ==
    /\ last = NoCall
    /\ \E country_name \in Countries, ages \in AgeRanges, education_data \in EducationDicts :
        LET r == convert_education_data(heap, country_name, ages[1], ages[2], education_data)
        IN  /\ heap' = AfterCall(r.heap)
            /\ last' = [op |-> "convert_education_data",
                        country_name |-> country_name,
                        start_age |-> ages[1], end_age |-> ages[2],
                        education |-> Contents(heap, education_data),
                        status |-> r.status, value |-> r.value]
    /\ UNCHANGED <<gui, education_rows, climate_rows, raw_education_data, raw_climate_data,
                   _education_data, _climate_data, returned>>

ConvertClimate ==
    /\ last = NoCall
    /\ _climate_data # NoRef
    /\ \E country_name \in Countries :
        LET r == convert_climate_data(heap, country_name, _climate_data)
        IN  /\ heap' = AfterCall(r.heap)
            /\ last' = [op |-> "convert_climate_data",
                        country_name |-> country_name,
                        climate |-> Contents(heap, _climate_data),
                        status |-> r.status, value |-> r.value]
    /\ UNCHANGED <<gui, education_rows, climate_rows, raw_education_data, raw_climate_data,
                   _education_data, _climate_data, returned>>

\* create_data_relation on the processed data the App holds.
CreateDataRelation(attainments) ==
    /\ last = NoCall
    /\ _climate_data # NoRef
    /\ \E country_name \in Countries, ages \in AgeRanges, education_attainment \in attainments :
        LET r == create_data_relation(heap, country_name, ages[1], ages[2],
                                      education_attainment, _climate_data, _education_data)
        IN  /\ heap' = AfterCall(r.heap)
            /\ last' = [op |-> "create_data_relation",
                        country_name |-> country_name,
                        start_age |-> ages[1], end_age |-> ages[2],
                        education_attainment |-> education_attainment,
                        climate |-> Contents(heap, _climate_data),
                        education |-> Contents(heap, _education_data),
                        status |-> r.status, value |-> r.value]
    /\ UNCHANGED <<gui, education_rows, climate_rows, raw_education_data, raw_climate_data,
                   _education_data, _climate_data, returned>>

\* plot_datasets on the processed data the App holds, as the Plot Raw Data
\* command calls it.
PlotDatasets(attainments) ==
    /\ last = NoCall
    /\ _climate_data # NoRef
    /\ \E country_name \in Countries, ages \in AgeRanges, education_attainment \in attainments :
        \E r \in {plot_datasets(heap, country_name, ages[1], ages[2], _climate_data,
                                _education_data, education_attainment)} :
            /\ heap' = AfterCall(r.heap)
            /\ last' = [op |-> "plot_datasets",
                        country_name |-> country_name,
                        start_age |-> ages[1], end_age |-> ages[2],
                        education_attainment |-> education_attainment,
                        climate |-> Contents(heap, _climate_data),
                        education |-> Contents(heap, _education_data),
                        status |-> r.status, value |-> r.value]
    /\ UNCHANGED <<gui, education_rows, climate_rows, raw_education_data, raw_climate_data,
                   _education_data, _climate_data, returned>>

\* read_raw_education_data on a disk with one file.
ReadEducationFile ==
    /\ last = NoCall
    /\ \E file \in EducationFiles, filename \in ReaderPaths :
        \E r \in {read_raw_education_data(heap, filename, "data/file.csv" :> file)} :
            /\ heap' = AfterCall(r.heap)
            /\ last' = [op |-> "read_raw_education_data", filename |-> filename,
                        file |-> file, status |-> r.status,
                        value |-> IF r.status = "ok" THEN Contents(r.heap, r.value)
                                  ELSE r.value]
    /\ UNCHANGED <<gui, education_rows, climate_rows, raw_education_data, raw_climate_data,
                   _education_data, _climate_data, returned>>

\* read_raw_climate_data on a disk with one file.
ReadClimateFile ==
    /\ last = NoCall
    /\ \E file \in ClimateFiles, filename \in ReaderPaths :
        \E r \in {read_raw_climate_data(heap, filename, "data/file.csv" :> file)} :
            /\ heap' = AfterCall(r.heap)
            /\ last' = [op |-> "read_raw_climate_data", filename |-> filename,
                        file |-> file, status |-> r.status,
                        value |-> IF r.status = "ok" THEN Contents(r.heap, r.value)
                                  ELSE r.value]
    /\ UNCHANGED <<gui, education_rows, climate_rows, raw_education_data, raw_climate_data,
                   _education_data, _climate_data, returned>>

LinearRegression ==
    /\ last = NoCall
    /\ \E x_points \in SeqsUpTo(XValues, MaxPoints), y_points \in SeqsUpTo(YValues, MaxPoints) :
        LET r == calculate_linear_regression(x_points, y_points)
        IN  last' = [op |-> "calculate_linear_regression",
                     x_points |-> x_points, y_points |-> y_points,
                     status |-> r.status, value |-> r.value, inexact |-> r.inexact]
    /\ UNCHANGED <<gui, education_rows, climate_rows, heap, raw_education_data,
                   raw_climate_data, _education_data, _climate_data, returned>>

\* The caller is done with the outcome of the last call and turns to the next.
Forget ==
    /\ last # NoCall
    /\ last' = NoCall
    /\ UNCHANGED <<gui, education_rows, climate_rows, heap, raw_education_data,
                   raw_climate_data, _education_data, _climate_data, returned>>

(***************************************************************************)
(* main.py: the Load Data page.                                            *)
(*                                                                         *)
(* The disk holds the education file and the climate file whose rows are   *)
(* education_rows and climate_rows, and an education file without rows.    *)
(* A callback given to after() waits in the sequence `after`; it can run   *)
(* once every callback scheduled before it with the same or a shorter      *)
(* delay has run.  A command of a page can run while its page is on top.   *)
(***************************************************************************)
Disk ==
    "education.csv" :>
        (<<EducationHeader>>
         \o [i \in DOMAIN education_rows |-> EducationCsvRow(education_rows[i], "MF")])
    @@ "climate.csv" :>
        (<<ClimateHeader>>
         \o [i \in DOMAIN climate_rows |-> ClimateCsvRow(climate_rows[i], January)])
    @@ "blank.csv" :> <<EducationHeader>>

\* The countries of the rows on the disk.
FileCountries ==
    {education_rows[i].country : i \in DOMAIN education_rows}
    \cup {climate_rows[i].country : i \in DOMAIN climate_rows}

\* What askopenfilename can return: a path, or '' when the dialog is closed.
FileNames == DOMAIN Disk \cup {""}

\* sorted(countries), for the country names of the model.
CountriesSorted == <<"Brazil", "Canada">>
sorted(countries) == LET In(c) == c \in countries IN SelectSeq(CountriesSorted, In)

Remove(s, i) == SubSeq(s, 1, i - 1) \o SubSeq(s, i + 1, Len(s))

Due(i) == \A j \in 1..(i - 1) : after[j].ms > after[i].ms

\* What a run of read_data did not get to do.
Untouched ==
    [calls |-> <<>>, education |-> <<>>, countries |-> <<>>, climate |-> <<>>,
     message |-> <<>>, label |-> <<>>, scheduled |-> <<>>]

\* except WrongFileError as error: the dialog, the label, return
Rejected(h, error) ==
    [Untouched EXCEPT !.message = <<WrongFileError__str__(error)>>, !.label = <<"">>]
    @@ [status |-> "WrongFileError", heap |-> h]

\* A change: when only the climate file is rejected, the education data read
\* so far is loaded into the App.
RejectedAfterLoading(h, error, raw_education) ==
    [Untouched EXCEPT !.message = <<WrongFileError__str__(error)>>, !.label = <<"">>,
                      !.education = <<raw_education.value>>]
    @@ [status |-> "WrongFileError", heap |-> raw_education.heap]

\* The except clause when the climate reader raised WrongFileError.
RejectedClimate(h, error, raw_education) == Rejected(h, error)

\* App.load_education_data, App.load_climate_data and what follows them in
\* read_data.  MainPage.load_countries sets the values of the combobox and
\* selects the first: with no value, current(0) raises TclError.
Loaded(processed_data) ==
    LET h == processed_data.heap
        countries == sorted(DOMAIN h.dicts[processed_data.value[1]].val)
    IN  IF countries = <<>>
        THEN [Untouched EXCEPT !.calls = <<processed_data.value>>,
                               !.education = <<processed_data.value[1]>>,
                               !.countries = <<countries>>]
             @@ [status |-> "TclError", heap |-> h]
        ELSE [calls |-> <<processed_data.value>>,
              education |-> <<processed_data.value[1]>>,
              countries |-> <<countries>>,
              climate |-> <<processed_data.value[2]>>,
              message |-> <<>>,
              label |-> <<"Loaded data!">>,
              scheduled |-> <<[ms |-> 100, callback |-> "display_page"]>>,
              status |-> "ok", heap |-> h]

\* The try block of read_data, given what the education parser gave and
\* what the climate parser gave on the heap the education parser left.
\* parsed tells how many files were parsed.
ReadFiles(h, raw_education_data_, raw_climate_data_) ==
    IF raw_education_data_.status # "ok"
    THEN [status |-> raw_education_data_.status, parsed |-> 0, heap |-> h,
          education |-> NoRef, climate |-> NoRef, error |-> raw_education_data_.value]
    ELSE IF raw_climate_data_.status # "ok"
    THEN [status |-> raw_climate_data_.status, parsed |-> 1,
          heap |-> raw_education_data_.heap,
          education |-> raw_education_data_.value, climate |-> NoRef,
          error |-> raw_climate_data_.value]
    ELSE [status |-> "ok", parsed |-> 2, heap |-> raw_climate_data_.heap,
          education |-> raw_education_data_.value,
          climate |-> raw_climate_data_.value, error |-> NoRef]

\* process_data on what the try block read, given the order in which it goes
\* through the set of countries.
ProcessFiles(raw, order) ==
    IF raw.status # "ok" THEN [heap |-> raw.heap, status |-> raw.status, value |-> <<>>]
    ELSE LET In(c) == c \in FilteredCountries(raw.heap, raw.education, raw.climate)
         IN  process_data(raw.heap, raw.education, raw.climate, SelectSeq(order, In))

\* read_data: what it did on the heap h, given what its try block and its
\* call of process_data gave.  An error other than WrongFileError is not
\* caught: the callback ends there.
read_data(h, raw, processed_data) ==
    IF raw.status = "WrongFileError"
    THEN IF raw.parsed = 0 THEN Rejected(h, raw.error)
         ELSE RejectedClimate(h, raw.error, [heap |-> raw.heap, value |-> raw.education])
    ELSE IF raw.status # "ok" THEN Untouched @@ [status |-> raw.status, heap |-> h]
    ELSE Loaded(processed_data)

\* The user presses Load Data at most MaxLoads times with files that get
\* processed, and at most MaxPending times before a read_data runs.
MaxLoads == 2
MaxPending == 1

PendingReads == {i \in DOMAIN after : after[i].callback = "read_data"}

ChooseEducationDataFile ==
    /\ raised = "LoadDataPage"
    /\ \E file_name \in FileNames : ent_education_data' = file_name
    /\ UNCHANGED <<last, education_rows, climate_rows, heap, raw_education_data, raw_climate_data,
                   _education_data, _climate_data, returned, ent_climate_data, lbl_output,
                   after, raised, cmb_country, showerror, process_calls>>

ChooseClimateDataFile ==
    /\ raised = "LoadDataPage"
    /\ \E file_name \in FileNames : ent_climate_data' = file_name
    /\ UNCHANGED <<last, education_rows, climate_rows, heap, raw_education_data, raw_climate_data,
                   _education_data, _climate_data, returned, ent_education_data, lbl_output,
                   after, raised, cmb_country, showerror, process_calls>>

\* The Load Data command: the error dialog is not followed by a return.
LoadDataCommand ==
    /\ raised = "LoadDataPage"
    /\ Cardinality(PendingReads) < MaxPending
    /\ Cardinality(PendingReads) + Len(process_calls) < MaxLoads
    /\ showerror' = IF ent_climate_data = "" \/ ent_education_data = ""
                    THEN "You must select both files." ELSE showerror
    /\ lbl_output' = "Loading data..."
    /\ after' = Append(after, [ms |-> 5, callback |-> "read_data",
                               education_file |-> ent_education_data,
                               climate_file |-> ent_climate_data])
    /\ UNCHANGED <<last, education_rows, climate_rows, heap, raw_education_data, raw_climate_data,
                   _education_data, _climate_data, returned, ent_education_data,
                   ent_climate_data, raised, cmb_country, process_calls>>

\* A scheduled read_data runs.
ReadData ==
    \E i \in PendingReads, order \in Orders(FileCountries) :
        \E raw_education_data_ \in
               {read_raw_education_data(heap, after[i].education_file, Disk)} :
        \E raw_climate_data_ \in
               {IF raw_education_data_.status # "ok" THEN raw_education_data_
                ELSE read_raw_climate_data(raw_education_data_.heap,
                                           after[i].climate_file, Disk)} :
        \E raw \in {ReadFiles(heap, raw_education_data_, raw_climate_data_)} :
        \E processed_data \in {ProcessFiles(raw, order)} :
        \E r \in {read_data(heap, raw, processed_data)} :
            /\ Due(i)
            /\ heap' = r.heap
            /\ process_calls' = process_calls \o r.calls
            /\ _education_data' = IF r.education = <<>> THEN _education_data ELSE r.education[1]
            /\ cmb_country' = IF r.countries = <<>> THEN cmb_country ELSE r.countries[1]
            /\ _climate_data' = IF r.climate = <<>> THEN _climate_data ELSE r.climate[1]
            /\ showerror' = IF r.message = <<>> THEN showerror ELSE r.message[1]
            /\ lbl_output' = IF r.label = <<>> THEN lbl_output ELSE r.label[1]
            /\ after' = Remove(after, i) \o r.scheduled
            /\ UNCHANGED <<last, education_rows, climate_rows, raw_education_data,
                           raw_climate_data, returned, ent_education_data,
                           ent_climate_data, raised>>

\* A scheduled display_page('MainPage') runs.
DisplayPage ==
    \E i \in DOMAIN after :
        /\ after[i].callback = "display_page"
        /\ Due(i)
        /\ raised' = "MainPage"
        /\ after' = Remove(after, i)
        /\ UNCHANGED <<last, education_rows, climate_rows, heap, raw_education_data,
                       raw_climate_data, _education_data, _climate_data, returned,
                       ent_education_data, ent_climate_data, lbl_output, cmb_country,
                       showerror, process_calls>>

(***************************************************************************)
(* The specifications.  Each draws the rows of the files and runs the      *)
(* calls of one part of the pipeline, one call at a time.                  *)
(***************************************************************************)
\* The pipeline: load (process) the raw data, then process it again.
Next == LoadData \/ ProcessAgain \/ Forget

Spec == Init /\ [][Next]_vars

\* The two filters, each on the one file that was read (the other is empty).
InitOneFile == Init /\ (education_rows = <<>> \/ climate_rows = <<>>)
NextFilter == FilterEducation \/ FilterClimate \/ Forget
SpecFilter == InitOneFile /\ [][NextFilter]_vars

\* The yearly averages of the raw climate data.
InitClimateOnly == Init /\ education_rows = <<>>
NextAverager == YearlyAvgs \/ Forget
SpecAverager == InitClimateOnly /\ [][NextAverager]_vars

\* The age-range averages of the raw education data.
InitEducationOnly == Init /\ climate_rows = <<>>
NextConvert == ConvertEducation \/ Forget
SpecConvert == InitEducationOnly /\ [][NextConvert]_vars

\* The year-aligned series of the loaded data, for every attainment.
InitTogether == Init /\ Len(education_rows) + Len(climate_rows) <= MaxRowsTogether
NextRelation == LoadData \/ CreateDataRelation(EducationAttainment) \/ Forget
SpecRelation == InitTogether /\ [][NextRelation]_vars

\* The attainments tried where every stage is called: the first, a middle and
\* the last branch of extract_data.
SomeAttainments ==
    {"PERCENT_NO_SCHOOLING", "PERCENT_COMPLETE_SECONDARY_SCHOOLING",
     "AVERAGE_YEARS_TERTIARY_SCHOOLING"}

\* Every transformation stage, in any order, before and after the load.
InitStages == Init /\ Len(education_rows) + Len(climate_rows) <= MaxRowsStages
NextStages ==
    \/ LoadData
    \/ ProcessAgain
    \/ FilterEducation
    \/ FilterClimate
    \/ YearlyAvgs
    \/ ConvertClimate
    \/ ConvertEducation
    \/ CreateDataRelation(SomeAttainments)
    \/ Forget
SpecStages == InitStages /\ [][NextStages]_vars

\* The regression on its own: no file is needed.
InitNoFiles == Init /\ education_rows = <<>> /\ climate_rows = <<>>
NextRegression == LinearRegression \/ Forget
SpecRegression == InitNoFiles /\ [][NextRegression]_vars

\* The readers on their own.
NextReaders == ReadEducationFile \/ ReadClimateFile \/ Forget
SpecReaders == InitNoFiles /\ [][NextReaders]_vars

\* The plot of the loaded data, for every attainment.
NextPlot == LoadData \/ PlotDatasets(EducationAttainment) \/ Forget
SpecPlot == InitTogether /\ [][NextPlot]_vars

\* The Load Data page: the App is constructed, nothing is read yet, and the
\* two files hold a few rows of two countries.
MaxGuiEducationRows == 1
MaxGuiClimateRows == 2

GuiEducationRowPool ==
    {EducationData("Canada", 2000, 15, 19, RowAttainment(1)),
     EducationData("Brazil", 2000, 15, 19, RowAttainment(2))}

GuiClimateRowPool ==
    {ClimateData("Canada", 2000, FromInt(10)),
     ClimateData("Brazil", 2005, FromInt(20))}

InitGui ==
    \E er \in SeqsUpTo(GuiEducationRowPool, MaxGuiEducationRows),
       cr \in SeqsUpTo(GuiClimateRowPool, MaxGuiClimateRows) :
        /\ education_rows = er
        /\ climate_rows = cr
        /\ heap = EmptyHeap
        /\ raw_education_data = NoRef
        /\ raw_climate_data = NoRef
        /\ _education_data = NoRef
        /\ _climate_data = NoRef
        /\ returned = <<>>
        /\ last = NoCall
        /\ ent_education_data = ""
        /\ ent_climate_data = ""
        /\ lbl_output = ""
        /\ after = <<>>
        /\ raised = "LoadDataPage"
        /\ cmb_country = <<>>
        /\ showerror = NoError
        /\ process_calls = <<>>

NextGui ==
    \/ ChooseEducationDataFile
    \/ ChooseClimateDataFile
    \/ LoadDataCommand
    \/ ReadData
    \/ DisplayPage
SpecGui == InitGui /\ [][NextGui]_vars

(***************************************************************************)
(* Vocabulary of the properties: a mapping m is the contents of a dict,    *)
(* the sequence of rows under each country.                                *)
(***************************************************************************)
\* The records of a mapping, each named by its key and its place.
Places(m) == UNION {{<<c, i>> : i \in 1..Len(m[c])} : c \in DOMAIN m}

\* The years that occur in some record of the mapping.
MappingYears(m) == {m[p[1]][p[2]].year : p \in Places(m)}

\* The years that occur in the records the mapping holds for country c.
CountryYears(m, c) ==
    IF c \in DOMAIN m THEN {m[c][i].year : i \in 1..Len(m[c])} ELSE {}

\* How many records of the mapping carry the pair (country, year).
PairCount(m, country, year) ==
    Cardinality({p \in Places(m) :
                    m[p[1]][p[2]].country = country /\ m[p[1]][p[2]].year = year})

\* The rows of a file as the readers group them: under each country its rows,
\* in file order.
RowsOf(rows, country) ==
    LET OfCountry(r) == r.country = country IN SelectSeq(rows, OfCountry)

RowsByCountry(rows) == [c \in {rows[i].country : i \in 1..Len(rows)} |-> RowsOf(rows, c)]

\* The rows of a sequence whose year is in years, in order.
OfYears(rows, years) ==
    LET InYears(r) == r.year \in years IN SelectSeq(rows, InYears)

\* The sum of field f over the rows at the places idx.
RECURSIVE FieldTotal(_, _, _)
FieldTotal(rows, idx, f) ==
    IF idx = {} THEN FromInt(0)
    ELSE LET i == CHOOSE j \in idx : TRUE
         IN  FAdd(rows[i][f], FieldTotal(rows, idx \ {i}, f))

\* v is the arithmetic mean of field f over the rows at the places idx:
\* v * count = sum.
IsMean(v, rows, idx, f) ==
    /\ idx # {}
    /\ LET t == FieldTotal(rows, idx, f)
       IN  v.num * Cardinality(idx) * t.den = t.num * v.den

\* A call of one of the two filters has ended.
Filtered == last.op \in {"filter_education_data", "filter_climate_data"}

\* The rows of a country of year y whose age band lies within [lo, hi].
InAgeRange(rows, y, lo, hi) ==
    {i \in 1..Len(rows) : rows[i].year = y /\ lo <= rows[i].age_from /\ rows[i].age_to <= hi}

\* The field an attainment selects: the members of the enum and the fields of
\* the dataclass are declared in the same order.
AttainmentOrder ==
    <<"PERCENT_NO_SCHOOLING", "PERCENT_PRIMARY_SCHOOLING",
      "PERCENT_COMPLETE_PRIMARY_SCHOOLING", "PERCENT_SECONDARY_SCHOOLING",
      "PERCENT_COMPLETE_SECONDARY_SCHOOLING", "PERCENT_TERTIARY_SCHOOLING",
      "PERCENT_COMPLETE_TERTIARY_SCHOOLING", "AVERAGE_YEARS_SCHOOLING",
      "AVERAGE_YEARS_PRIMARY_SCHOOLING", "AVERAGE_YEARS_SECONDARY_SCHOOLING",
      "AVERAGE_YEARS_TERTIARY_SCHOOLING">>

SelectedField(attainment) ==
    AttainmentFields[CHOOSE i \in 1..Len(AttainmentOrder) : AttainmentOrder[i] = attainment]

\* A call of process_data has returned.
Processed == last.op = "process_data"

(***************************************************************************)
(* C1.  Every record of either mapping returned by process_data has a      *)
(* country that is a key of both input mappings and a year that occurs in  *)
(* some education input record and in some climate input record.           *)
(***************************************************************************)
C1_ProcessDataKeepsOnlySharedCountriesAndYears ==
    Processed =>
        \A k \in {1, 2} : \A p \in Places(last.value[k]) :
            LET row == last.value[k][p[1]][p[2]]
            IN  /\ p[1] \in DOMAIN last.education \cap DOMAIN last.climate
                /\ row.country \in DOMAIN last.education \cap DOMAIN last.climate
                /\ row.year \in MappingYears(last.education) \cap MappingYears(last.climate)

\* process_data on raw data returned records of both kinds although one input
\* has a country, and one a year, that the other has not.
C1_Witness ==
    /\ Processed /\ ~last.again
    /\ Places(last.value[1]) # {} /\ Places(last.value[2]) # {}
    /\ DOMAIN last.climate \ DOMAIN last.education # {}
    /\ MappingYears(last.education) \ MappingYears(last.climate) # {}

(***************************************************************************)
(* C2.  After process_data, for every country, the years of its records in *)
(* the returned education mapping are the years of its records in the      *)
(* returned climate mapping.                                               *)
(***************************************************************************)
C2_SameYearsPerCountry ==
    (Processed /\ ~last.again) =>
        \A c \in DOMAIN last.value[1] \cup DOMAIN last.value[2] :
            CountryYears(last.value[1], c) = CountryYears(last.value[2], c)

(***************************************************************************)
(* C3.  process_data applied to what process_data returned returns         *)
(* mappings equal to its arguments.                                        *)
(***************************************************************************)
C3_ProcessTwiceIsNoOp ==
    (Processed /\ last.again) =>
        /\ last.value[1] = last.education
        /\ last.value[2] = last.climate

(***************************************************************************)
(* C4, as claimed.  When the country set of a filter holds a name that is  *)
(* not a key of the source mapping, or a country none of whose rows has a  *)
(* year of the year set, the filter ends without error and returns a       *)
(* mapping with no key for that country.                                   *)
(***************************************************************************)
C4_AbsentOrUnmatchedCountryIsOmitted ==
    Filtered =>
        \A c \in last.countries :
            (c \notin DOMAIN last.source \/ OfYears(last.source[c], last.years) = <<>>)
                => (last.status = "ok" /\ c \notin DOMAIN last.value)

(***************************************************************************)
(* C4, amended.  When the country set of a filter holds a name that is not *)
(* a key of the source mapping, the filter raises KeyError and returns no  *)
(* mapping.  When every country of the set is a key, the filter ends       *)
(* without error, and a country none of whose rows has a year of the year  *)
(* set has no key in the mapping returned.                                 *)
(***************************************************************************)
C4_AbsentCountryRaisesUnmatchedCountryIsOmitted ==
    Filtered =>
        /\ (\E c \in last.countries : c \notin DOMAIN last.source)
               => (last.status = "KeyError" /\ last.value = NoRef)
        /\ (\A c \in last.countries : c \in DOMAIN last.source)
               => /\ last.status = "ok"
                  /\ \A c \in last.countries :
                         OfYears(last.source[c], last.years) = <<>>
                             => c \notin DOMAIN last.value

\* A filter was given two countries that are keys; one has no row of the
\* years asked for and is left out, the other is returned.
C4_Witness ==
    /\ Filtered /\ last.status = "ok"
    /\ \E c, d \in last.countries :
           /\ c \in DOMAIN last.source /\ c \notin DOMAIN last.value
           /\ d \in DOMAIN last.value

(***************************************************************************)
(* C5, as claimed.  In each of the two mappings returned by process_data   *)
(* every (country, year) pair that occurs appears in exactly one record.   *)
(***************************************************************************)
C5_EveryPairOnceInBoth ==
    Processed =>
        \A k \in {1, 2} : \A p \in Places(last.value[k]) :
            PairCount(last.value[k], last.value[k][p[1]][p[2]].country,
                      last.value[k][p[1]][p[2]].year) = 1

(***************************************************************************)
(* C5, amended.  In the climate mapping returned by process_data every     *)
(* (country, year) pair that occurs appears in exactly one record; in the  *)
(* education mapping a pair appears as often as in the education input     *)
(* (once per row of that country and year).                                *)
(***************************************************************************)
C5_PairOnceInClimateAsOftenAsGivenInEducation ==
    Processed =>
        /\ \A p \in Places(last.value[2]) :
               PairCount(last.value[2], last.value[2][p[1]][p[2]].country,
                         last.value[2][p[1]][p[2]].year) = 1
        /\ \A p \in Places(last.value[1]) :
               LET row == last.value[1][p[1]][p[2]]
               IN  PairCount(last.value[1], row.country, row.year)
                       = PairCount(last.education, row.country, row.year)

\* process_data on raw data averaged several climate rows of one pair into one
\* record and returned two education records of one pair.
C5_Witness ==
    /\ Processed /\ ~last.again
    /\ \E p \in Places(last.value[2]) :
           PairCount(last.climate, last.value[2][p[1]][p[2]].country,
                     last.value[2][p[1]][p[2]].year) > 1
    /\ \E p \in Places(last.value[1]) :
           PairCount(last.value[1], last.value[1][p[1]][p[2]].country,
                     last.value[1][p[1]][p[2]].year) > 1

(***************************************************************************)
(* C6.  calculate_yearly_avgs returns, for every country of its input and  *)
(* every year among that country's rows, exactly one record, whose         *)
(* avg_temp is the sum of the temperatures of the country's rows of that   *)
(* year divided by their count, and no other record.                       *)
(***************************************************************************)
C6_OneRecordPerCountryAndYearWithTheMean ==
    last.op = "calculate_yearly_avgs" =>
        /\ last.status = "ok"
        /\ DOMAIN last.value = {c \in DOMAIN last.climate : last.climate[c] # <<>>}
        /\ \A c \in DOMAIN last.value :
               LET rows == last.climate[c]
                   avgs == last.value[c]
               IN  /\ \A y \in CountryYears(last.climate, c) :
                          \E i \in 1..Len(avgs) :
                              /\ avgs[i].year = y
                              /\ avgs[i].country = c
                              /\ IsMean(avgs[i].avg_temp, rows,
                                        {j \in 1..Len(rows) : rows[j].year = y}, "avg_temp")
                              /\ \A k \in 1..Len(avgs) : avgs[k].year = y => k = i
                   /\ \A i \in 1..Len(avgs) : avgs[i].year \in CountryYears(last.climate, c)

\* Three rows of one country, two of them of one year with different
\* temperatures, were averaged into two records.
C6_Witness ==
    /\ last.op = "calculate_yearly_avgs"
    /\ \E c \in DOMAIN last.value :
           /\ Len(last.climate[c]) = 3
           /\ Len(last.value[c]) = 2
           /\ \E i \in 1..2 : last.value[c][i].avg_temp = FromInt(15)

(***************************************************************************)
(* C7.  For a country that is a key of data, convert_education_data        *)
(* returns a mapping whose keys are exactly the years for which the        *)
(* country has a record with start_age <= age_from and age_to <= end_age;  *)
(* the record of year y carries the country, y, age_from = start_age,      *)
(* age_to = end_age, and each of the eleven attainment fields is the mean  *)
(* of that field over all such records of year y.                          *)
(***************************************************************************)
C7_OneMeanRecordPerYearInAgeRange ==
    (last.op = "convert_education_data" /\ last.country_name \in DOMAIN last.education) =>
        LET rows == last.education[last.country_name]
            In(y) == InAgeRange(rows, y, last.start_age, last.end_age)
        IN  /\ last.status = "ok"
            /\ DOMAIN last.value.val = {y \in CountryYears(last.education, last.country_name) :
                                            In(y) # {}}
            /\ Range(last.value.keys) = DOMAIN last.value.val
            /\ \A y \in DOMAIN last.value.val :
                   LET rec == last.value.val[y]
                   IN  /\ rec.country = last.country_name
                       /\ rec.year = y
                       /\ rec.age_from = last.start_age
                       /\ rec.age_to = last.end_age
                       /\ \A f \in Range(AttainmentFields) : IsMean(rec[f], rows, In(y), f)

\* The bands 15-19 (10 % without schooling) and 20-24 (20 %) of one year were
\* averaged over the range 15-24 into one record with 15 %.
C7_Witness ==
    /\ last.op = "convert_education_data" /\ last.status = "ok"
    /\ last.start_age = 15 /\ last.end_age = 24
    /\ \E y \in DOMAIN last.value.val :
           /\ Cardinality(InAgeRange(last.education[last.country_name], y, 15, 24)) = 2
           /\ last.value.val[y].percent_no_schooling = FromInt(15)

(***************************************************************************)
(* C8.  When every year of the country's climate records is a key of the   *)
(* age-range-averaged education mapping, create_data_relation returns two  *)
(* sequences x and y as long as the country's climate records; x[i] is the *)
(* avg_temp of the i-th climate record and y[i] is the selected attainment *)
(* of the age-range-averaged education record of that record's year.       *)
(* The datasets are those process_data returned.                           *)
(***************************************************************************)
C8_SeriesAlignedWithClimateRecords ==
    (/\ last.op = "create_data_relation"
     /\ last.country_name \in DOMAIN last.climate \cap DOMAIN last.education
     /\ \A i \in 1..Len(last.climate[last.country_name]) :
            InAgeRange(last.education[last.country_name],
                       last.climate[last.country_name][i].year,
                       last.start_age, last.end_age) # {})
    =>  LET climate == last.climate[last.country_name]
            rows == last.education[last.country_name]
            f == SelectedField(last.education_attainment)
        IN  /\ last.status = "ok"
            /\ Len(last.value[1]) = Len(climate)
            /\ Len(last.value[2]) = Len(climate)
            /\ \A i \in 1..Len(climate) :
                   /\ last.value[1][i] = climate[i].avg_temp
                   /\ IsMean(last.value[2][i], rows,
                             InAgeRange(rows, climate[i].year, last.start_age, last.end_age),
                             f)

\* A series of two points with different temperatures and different
\* attainment values was returned.
C8_Witness ==
    /\ last.op = "create_data_relation" /\ last.status = "ok"
    /\ Len(last.value[1]) = 2
    /\ last.value[1][1] # last.value[1][2]
    /\ last.value[2][1] # last.value[2][2]

(***************************************************************************)
(* C9.  When every country of the given set is a key of the source         *)
(* mapping, a filter returns, for each such country, exactly the           *)
(* subsequence of the country's source rows whose year is in the year set, *)
(* in source order; a country whose subsequence is empty has no key, and   *)
(* no country outside the set has one.                                     *)
(***************************************************************************)
C9_FilterKeepsRowsOfTheYearsInSourceOrder ==
    (Filtered /\ last.countries \subseteq DOMAIN last.source) =>
        /\ last.status = "ok"
        /\ DOMAIN last.value =
               {c \in last.countries : OfYears(last.source[c], last.years) # <<>>}
        /\ \A c \in DOMAIN last.value :
               last.value[c] = OfYears(last.source[c], last.years)

\* A filter kept two different rows of a country and dropped a row that lay
\* between or around them.
C9_Witness ==
    /\ Filtered /\ last.status = "ok"
    /\ \E c \in DOMAIN last.value :
           /\ Len(last.value[c]) = 2
           /\ Len(last.source[c]) = 3
           /\ last.value[c][1] # last.value[c][2]

(***************************************************************************)
(* C10.  No transformation stage changes a mapping passed to it: after any *)
(* sequence of calls the two raw mappings hold what the readers built from *)
(* the files, the two loaded mappings hold what process_data returned, and *)
(* every call was given exactly those contents.                            *)
(***************************************************************************)
AsRead == <<RowsByCountry(education_rows), RowsByCountry(climate_rows)>>

C10_NoStageChangesItsArguments ==
    /\ Contents(heap, raw_education_data) = AsRead[1]
    /\ Contents(heap, raw_climate_data) = AsRead[2]
    /\ _education_data # NoRef =>
           /\ Contents(heap, _education_data) = returned[1]
           /\ Contents(heap, _climate_data) = returned[2]
    /\ last.op = "filter_education_data" => last.source = AsRead[1]
    /\ last.op = "filter_climate_data" => last.source = AsRead[2]
    /\ last.op = "calculate_yearly_avgs" => last.climate = AsRead[2]
    /\ (last.op = "process_data" /\ ~last.again) =>
           (last.education = AsRead[1] /\ last.climate = AsRead[2])
    /\ (last.op = "process_data" /\ last.again) =>
           (last.education = returned[1] /\ last.climate = returned[2])
    /\ last.op = "convert_climate_data" => last.climate = returned[2]
    /\ last.op = "convert_education_data" =>
           (last.education = AsRead[1]
            \/ (_education_data # NoRef /\ last.education = returned[1]))
    /\ last.op = "create_data_relation" =>
           (last.education = returned[1] /\ last.climate = returned[2])

\* After the raw data was processed and loaded, calculate_yearly_avgs was
\* called on the same raw climate mapping and returned other rows than it
\* was given.
C10_Witness ==
    /\ last.op = "calculate_yearly_avgs"
    /\ _education_data # NoRef
    /\ last.value # last.climate
    /\ Places(returned[1]) # {}

(***************************************************************************)
(* C13.  create_data_relation fails with KeyError and returns nothing when *)
(* the country is not a key of the climate mapping or of the education     *)
(* mapping, or when some year of the country's climate records has no      *)
(* education record of the country within the age range; whenever it       *)
(* returns, both sequences have one entry per climate record.  The         *)
(* datasets are those process_data returned.                               *)
(***************************************************************************)
YearWithoutEducation(climate, education, c, lo, hi) ==
    \E i \in 1..Len(climate[c]) : InAgeRange(education[c], climate[c][i].year, lo, hi) = {}

C13_MissingCountryOrYearRaisesKeyError ==
    last.op = "create_data_relation" =>
        LET c == last.country_name
            missing == \/ c \notin DOMAIN last.climate
                       \/ c \notin DOMAIN last.education
                       \/ YearWithoutEducation(last.climate, last.education, c,
                                               last.start_age, last.end_age)
        IN  /\ missing => (last.status = "KeyError" /\ last.value = NoRef)
            /\ last.status = "ok" =>
                   /\ ~missing
                   /\ Len(last.value[1]) = Len(last.climate[c])
                   /\ Len(last.value[2]) = Len(last.climate[c])

\* The country is a key of both mappings and has an education record within
\* the age range for one of its climate years but not for another: KeyError.
C13_Witness ==
    /\ last.op = "create_data_relation"
    /\ last.status = "KeyError"
    /\ last.country_name \in DOMAIN last.climate \cap DOMAIN last.education
    /\ \E i, j \in 1..Len(last.climate[last.country_name]) :
          /\ InAgeRange(last.education[last.country_name],
                        last.climate[last.country_name][i].year,
                        last.start_age, last.end_age) # {}
          /\ InAgeRange(last.education[last.country_name],
                        last.climate[last.country_name][j].year,
                        last.start_age, last.end_age) = {}

(***************************************************************************)
(* C11: points that lie exactly on a line y = a0 + b0*x, with at least two *)
(* distinct x values and as many y as x values, give (a, b) = (a0, b0)     *)
(* whenever the arithmetic of the call was exact (no operation rounded).   *)
(***************************************************************************)
Regressed == last.op = "calculate_linear_regression"

\* The slope and intercept of the line through points i and j (x differ).
LineThrough(x, y, i, j) ==
    LET b0 == FDiv(FSub(y[j], y[i]), FSub(x[j], x[i]))
    IN  <<FSub(y[i], FMul(b0, x[i])), b0>>

OnLine(x, y, line) == \A k \in DOMAIN x : y[k] = FAdd(line[1], FMul(line[2], x[k]))

C11_PointsOnALineGiveThatLine ==
    (Regressed /\ Len(last.x_points) = Len(last.y_points) /\ ~last.inexact) =>
        \A i, j \in DOMAIN last.x_points :
            (/\ last.x_points[i] # last.x_points[j]
             /\ OnLine(last.x_points, last.y_points,
                       LineThrough(last.x_points, last.y_points, i, j)))
            => (/\ last.status = "ok"
                /\ last.value = LineThrough(last.x_points, last.y_points, i, j))

\* x = [1, 2, 3], y = [2, 4, 6] gave a = 0, b = 2.
C11_Witness ==
    /\ Regressed
    /\ last.x_points = <<FromInt(1), FromInt(2), FromInt(3)>>
    /\ last.y_points = <<FromInt(2), FromInt(4), FromInt(6)>>
    /\ ~last.inexact
    /\ last.status = "ok"
    /\ last.value = <<FromInt(0), FromInt(2)>>

(***************************************************************************)
(* C12, as stated: whenever the sequences are empty or all x values are    *)
(* identical, the call fails with a division error.                        *)
(***************************************************************************)
AllIdentical(x) == x # <<>> /\ \A i \in DOMAIN x : x[i] = x[1]

Read == last.op \in {"read_raw_education_data", "read_raw_climate_data"}

ExpectedHeader ==
    IF last.op = "read_raw_education_data" THEN EducationHeader ELSE ClimateHeader

ReadWrongHeader ==
    /\ Read
    /\ last.filename = "data/file.csv"
    /\ last.file # <<>>
    /\ Head(last.file) # ExpectedHeader

C14_WrongHeaderRaisesWrongFileError ==
    ReadWrongHeader => last.status = "WrongFileError"

\* Each reader met a header with two columns in the wrong order, followed by
\* a row that cannot be converted, and raised WrongFileError.
C14_WitnessOf(op, expected, row) ==
    /\ last.op = op
    /\ last.filename = "data/file.csv"
    /\ last.file = <<[expected EXCEPT ![1] = expected[2], ![2] = expected[1]], row>>
    /\ last.status = "WrongFileError"

C14_Witness ==
    \/ C14_WitnessOf("read_raw_education_data", EducationHeader,
                     [EducationCsvRow(EducationData("Canada", 2000, 15, 19, RowAttainment(1)),
                                      "MF") EXCEPT ![3] = <<"y">>])
    \/ C14_WitnessOf("read_raw_climate_data", ClimateHeader,
                     <<Digits(2005) \o January, <<"n", "a">>, "0.5", "Canada">>)

(***************************************************************************)
(* C15.  The WrongFileError a reader raises has the path the reader was    *)
(* given as its filename.                                                  *)
(***************************************************************************)
C15_ErrorCarriesThePath ==
    (Read /\ last.status = "WrongFileError") => last.value.filename = last.filename

(***************************************************************************)
(* C16.  For a climate file with the expected header whose rows are rows   *)
(* of data, with or without a temperature, read_raw_climate_data returns   *)
(* for each country the records of its rows with a temperature, in file    *)
(* order, and nothing for the rows without one.                            *)
(***************************************************************************)
\* The records a row stands for: the one it was written from, or none.
RecordsOf(row) ==
    IF row \in ClimateCsvMissing THEN <<>>
    ELSE <<CHOOSE r \in [country : {"Canada", "Brazil"}, year : {2000, 2005},
                         avg_temp : {FromInt(10), Float(41, 2), Float(-7, 2)}] :
               row \in {ClimateCsvRow(r, January), ClimateCsvRow(r, February)}>>

RECURSIVE RecordsOfRows(_)
RecordsOfRows(rows) ==
    IF rows = <<>> THEN <<>> ELSE RecordsOf(Head(rows)) \o RecordsOfRows(Tail(rows))

ReadClimateData ==
    /\ last.op = "read_raw_climate_data"
    /\ last.filename = "data/file.csv"
    /\ last.file # <<>>
    /\ Head(last.file) = ClimateHeader
    /\ \A i \in 2..Len(last.file) : last.file[i] \in ClimateCsvData \cup ClimateCsvMissing

C16_RecordsAreTheRowsWithATemperature ==
    ReadClimateData =>
        /\ last.status = "ok"
        /\ last.value = RowsByCountry(RecordsOfRows(Tail(last.file)))
        /\ Cardinality(Places(last.value))
              = Cardinality({i \in 2..Len(last.file) : last.file[i][2] # <<>>})

\* A file of three rows, the second without a temperature, gave two records
\* of one country, the first row's before the third's.
C16_Witness ==
    /\ ReadClimateData
    /\ Len(last.file) = 4
    /\ last.file[3][2] = <<>>
    /\ last.status = "ok"
    /\ DOMAIN last.value = {"Canada"}
    /\ last.value["Canada"] = <<ClimateData("Canada", 2000, Float(41, 2)),
                                ClimateData("Canada", 2000, FromInt(10))>>

(***************************************************************************)
(* The Load Data page.  A step runs the read_data waiting at place i when  *)
(* it takes that callback out of `after` and leaves the others in place.   *)
(***************************************************************************)
ReadDataRan(i) ==
    /\ i \in PendingReads
    /\ Len(after') >= Len(after) - 1
    /\ SubSeq(after', 1, Len(after) - 1) = Remove(after, i)
    /\ Cardinality({j \in DOMAIN after' : after'[j].callback = "read_data"})
          < Cardinality(PendingReads)

\* One of the two parsers raises WrongFileError on the files of the callback:
\* the education parser, or the climate parser after the education file was
\* parsed.
Rejects(callback) ==
    LET education == read_raw_education_data(EmptyHeap, callback.education_file, Disk)
    IN  \/ education.status = "WrongFileError"
        \/ /\ education.status = "ok"
           /\ read_raw_climate_data(education.heap, callback.climate_file, Disk).status
                 = "WrongFileError"

\* The callbacks that wait to raise the main page.
PendingDisplays == {i \in DOMAIN after : after[i].callback = "display_page"}

\* C17: when a parser raises WrongFileError in read_data, process_data is
\* not called, the App keeps both datasets it held, the country selector
\* keeps its values and no display of the main page is scheduled; so also
\* when only the climate file is rejected.
C17_RejectedFileLeavesNoPartialLoad ==
    [][\A i \in DOMAIN after :
          (ReadDataRan(i) /\ Rejects(after[i])) =>
              /\ process_calls' = process_calls
              /\ heap' = heap
              /\ _education_data' = _education_data
              /\ _climate_data' = _climate_data
              /\ cmb_country' = cmb_country
              /\ after' = Remove(after, i)
              /\ raised' = raised]_vars

\* The climate parser rejected the file without rows, chosen as the climate
\* file next to the education file with its row: the dialog shows the
\* error of the climate parser, and the App holds nothing.
C17_Witness ==
    /\ Len(education_rows) = 1
    /\ ent_education_data = "education.csv"
    /\ ent_climate_data = "blank.csv"
    /\ after = <<>>
    /\ showerror = WrongFileError__str__(
                      WrongFileError("File blank.csv does not match the expected format."))
    /\ lbl_output = ""
    /\ process_calls = <<>>
    /\ _education_data = NoRef

\* The keys of the mapping the App holds under a reference.
KeysOf(ref) == IF ref = NoRef THEN {} ELSE DOMAIN heap.dicts[ref].val

\* C18: every country name in the country selector is a key of the processed
\* education mapping and of the processed climate mapping the App holds.
C18_SelectorCountriesAreKeysOfBothMappings ==
    \A i \in DOMAIN cmb_country :
        /\ cmb_country[i] \in KeysOf(_education_data)
        /\ cmb_country[i] \in KeysOf(_climate_data)

\* C19: once the main page is raised, the App holds an education and a
\* climate dataset, and the two are the pair one call of process_data
\* returned.
C19_MainPageShowsThePairOfOneCall ==
    raised = "MainPage" =>
        /\ _education_data # NoRef
        /\ _climate_data # NoRef
        /\ \E i \in DOMAIN process_calls :
               process_calls[i] = <<_education_data, _climate_data>>

\* The step is a run of the Load Data command: it alone schedules a
\* read_data.
LoadDataRan ==
    Cardinality({j \in DOMAIN after' : after'[j].callback = "read_data"})
        > Cardinality(PendingReads)

\* C20: the Load Data command, run while a path is empty, reports the error
\* and stops: it schedules no read and leaves the status label alone.
C20_EmptyPathStopsTheCommand ==
    [][(ent_education_data = "" \/ ent_climate_data = "") =>
          /\ ~LoadDataRan
          /\ lbl_output' # lbl_output => lbl_output' # "Loading data..."]_vars

(***************************************************************************)
(* C21.  On datasets process_data returned, the series plot_datasets hands *)
(* to the plot are aligned: the years, the average temperatures and the    *)
(* attainment values are equally long, both plots get the same years, and  *)
(* the i-th attainment value is the selected attainment of the country's   *)
(* education rows of the i-th year within the age range.                   *)
(***************************************************************************)
C21_PlottedSeriesAreAligned ==
    (last.op = "plot_datasets" /\ last.status = "ok") =>
        LET rows == last.education[last.country_name]
            f == SelectedField(last.education_attainment)
            years == last.value.xa_points
        IN  /\ Len(last.value.ya_points) = Len(years)
            /\ last.value.xb_points = years
            /\ Len(last.value.yb_points) = Len(years)
            /\ \A i \in DOMAIN years :
                   IsMean(last.value.yb_points[i], rows,
                          InAgeRange(rows, years[i], last.start_age, last.end_age), f)

====
